---- MODULE Spec2Model ----
(***************************************************************************)
(* NutriLens (src/nutrilens_app.py): the normalisation pipeline            *)
(* (clean_text_field, normalize_products_json), the aggregations           *)
(* (top_ingredients_from_df, brand_summary, nutriscore_to_numeric) and the *)
(* Streamlit script run (search flow, barcode lookup, dashboard guard).    *)
(*                                                                         *)
(* Text is a sequence of one-character strings.  A JSON value is a record  *)
(* [k, n, s]: k = "none" (key missing or null), "num" (number n) or "str"  *)
(* (text s).  A numeric DataFrame cell is Num(n) or NaN.  Numbers are      *)
(* integers: every threshold of the code (0, 100, 900) is an integer.      *)
(***************************************************************************)
EXTENDS Integers, Sequences, FiniteSets, TLC

VARIABLES
    products,     \* results_json["products"] handed to normalize_products_json
    given,        \* the products as they were delivered by the fetch
    out,          \* outcome of the last normalize_products_json call
    out2,         \* outcome of a second call on the same products
    pc,           \* position of the library-level run
    summary,      \* outcome of the last brand_summary call
    top,          \* outcome of the last top_ingredients_from_df call
    session_df,   \* st.session_state.df
    fetch,        \* how the last fetch_products call ended
    search_msg,   \* message box of the search flow in the last script run
    lookup,       \* the barcode lookup of the last script run
    lookup_msg,   \* what the barcode lookup showed in the last script run
    shown,        \* whether the dashboard was rendered in the last script run
    quality       \* the data quality report of the last script run

vars == <<products, given, out, out2, pc, summary, top,
          session_df, fetch, search_msg, lookup, lookup_msg, shown, quality>>

---------------------------------------------------------------------------
(* Bounds of the model *)

MaxProducts == 2
MaxTop == 2

(* Program constants *)

EnergyMax == 900
MacroMax == 100
KJThreshold == 1000
DashboardBrands == 12
DashboardIngredients == 25

---------------------------------------------------------------------------
(* JSON values and DataFrame cells *)

None == [k |-> "none", n |-> 0, s |-> <<>>]
Num(x) == [k |-> "num", n |-> x, s |-> <<>>]
Str(t) == [k |-> "str", n |-> 0, s |-> t]
NaN == [k |-> "nan", n |-> 0, s |-> <<>>]

IsNone(v) == v.k = "none"
NotNa(v) == v.k \notin {"none", "nan"}

\* Python truthiness of None, a number or a string
Truthy(v) ==
    CASE v.k = "num" -> v.n # 0
      [] v.k = "str" -> v.s # <<>>
      [] OTHER -> FALSE

\* Python's "a or b"
PyOr(a, b) == IF Truthy(a) THEN a ELSE b

---------------------------------------------------------------------------
(* Text operations: str.strip, str.split, str.lower, str.title,            *)
(* str.replace on one-character patterns                                   *)

RECURSIVE LStrip(_)
LStrip(t) ==
    IF t = <<>> THEN <<>>
    ELSE IF Head(t) = " " THEN LStrip(Tail(t)) ELSE t

RECURSIVE RStrip(_)
RStrip(t) ==
    IF t = <<>> THEN <<>>
    ELSE IF t[Len(t)] = " " THEN RStrip(SubSeq(t, 1, Len(t) - 1)) ELSE t

Strip(t) == RStrip(LStrip(t))

\* t.split(sep)[0]
RECURSIVE SplitFirst(_, _)
SplitFirst(t, sep) ==
    IF t = <<>> \/ Head(t) = sep THEN <<>>
    ELSE <<Head(t)>> \o SplitFirst(Tail(t), sep)

\* t.split(sep)[-1]
RECURSIVE SplitLast(_, _)
SplitLast(t, sep) ==
    IF t = <<>> THEN <<>>
    ELSE IF t[Len(t)] = sep THEN <<>>
    ELSE SplitLast(SubSeq(t, 1, Len(t) - 1), sep) \o <<t[Len(t)]>>

Replace(t, a, b) == [i \in 1..Len(t) |-> IF t[i] = a THEN b ELSE t[i]]

\* the cased characters of the model, <<lower, upper>>
CasePairs ==
    << <<"a", "A">>, <<"b", "B">>, <<"c", "C">>, <<"d", "D">>, <<"e", "E">>,
       <<"f", "F">>, <<"g", "G">>, <<"k", "K">>, <<"l", "L">>, <<"n", "N">>,
       <<"o", "O">>, <<"r", "R">>, <<"s", "S">>, <<"t", "T">>, <<"u", "U">>,
       <<"w", "W">>, <<"x", "X">> >>

IsCased(c) == \E i \in 1..Len(CasePairs) : c \in {CasePairs[i][1], CasePairs[i][2]}

LowerChar(c) ==
    IF \E i \in 1..Len(CasePairs) : CasePairs[i][2] = c
    THEN CasePairs[CHOOSE i \in 1..Len(CasePairs) : CasePairs[i][2] = c][1]
    ELSE c

UpperChar(c) ==
    IF \E i \in 1..Len(CasePairs) : CasePairs[i][1] = c
    THEN CasePairs[CHOOSE i \in 1..Len(CasePairs) : CasePairs[i][1] = c][2]
    ELSE c

Lower(t) == [i \in 1..Len(t) |-> LowerChar(t[i])]

\* str.title: a cased character is upper-cased after an uncased one (or at
\* the start) and lower-cased after a cased one
Title(t) ==
    [i \in 1..Len(t) |->
        IF i = 1 \/ ~IsCased(t[i - 1]) THEN UpperChar(t[i]) ELSE LowerChar(t[i])]

\* code-point order of the characters of the model
CharOrder ==
    <<" ", ",", "-", "/", "0", "1", "2", "3", "4", "5", "6", "7", "8", "9", ":",
      "A", "B", "C", "D", "E", "F", "G", "K", "L", "N", "O", "R", "S", "T", "U", "W", "X",
      "a", "b", "c", "d", "e", "f", "g", "k", "l", "n", "o", "r", "s", "t", "u", "w", "x">>

CharRank(c) == CHOOSE i \in 1..Len(CharOrder) : CharOrder[i] = c

\* Python's str "<"
RECURSIVE TextLess(_, _)
TextLess(a, b) ==
    IF b = <<>> THEN FALSE
    ELSE IF a = <<>> THEN TRUE
    ELSE IF Head(a) = Head(b) THEN TextLess(Tail(a), Tail(b))
    ELSE CharRank(Head(a)) < CharRank(Head(b))

---------------------------------------------------------------------------
(* pd.to_numeric(..., errors='coerce') on one cell *)

Digits == <<"0", "1", "2", "3", "4", "5", "6", "7", "8", "9">>

IsDigit(c) == \E i \in 1..Len(Digits) : Digits[i] = c

DigitVal(c) == (CHOOSE i \in 1..Len(Digits) : Digits[i] = c) - 1

RECURSIVE ParseDigits(_)
ParseDigits(t) ==
    IF t = <<>> THEN 0
    ELSE 10 * ParseDigits(SubSeq(t, 1, Len(t) - 1)) + DigitVal(t[Len(t)])

IsDigitText(t) == t # <<>> /\ \A i \in 1..Len(t) : IsDigit(t[i])

\* a signed decimal integer literal, or not a number
ParseNumber(t) ==
    IF IsDigitText(t) THEN Num(ParseDigits(t))
    ELSE IF t # <<>> /\ Head(t) = "-" /\ IsDigitText(Tail(t)) THEN Num(0 - ParseDigits(Tail(t)))
    ELSE NaN

ToNumeric(v) ==
    CASE v.k = "num" -> Num(v.n)
      [] v.k = "str" -> ParseNumber(v.s)
      [] OTHER -> NaN

---------------------------------------------------------------------------
(* clean_text_field and normalize_products_json *)

clean_text_field(value) ==
    IF IsNone(value) \/ (value.k = "str" /\ Strip(value.s) = <<>>) THEN None ELSE value

Grades == { <<"a">>, <<"b">>, <<"c">>, <<"d">>, <<"e">> }

\* lower-cased but never validated
ValidGradeMut(v) == IF Truthy(v) THEN Str(Lower(v.s)) ELSE v

\* lines 90-93 and 96-99: lower-case, keep only a valid grade
ValidGrade(v) ==
    IF Truthy(v)
    THEN (IF Lower(v.s) \in Grades THEN Str(Lower(v.s)) ELSE None)
    ELSE v

NoTags == [k |-> "none", l |-> <<>>]
Tags(l) == [k |-> "list", l |-> l]

\* nutr = p.get("nutriments", {}) or {}: every key of an empty dict reads None
EmptyNutriments ==
    [energy_kcal_100g |-> None, energy_100g |-> None, fat_100g |-> None,
     saturated_fat_100g |-> None, carbohydrates_100g |-> None, sugars_100g |-> None,
     fiber_100g |-> None, proteins_100g |-> None, salt_100g |-> None]

Nutriments(p) == IF p.nutriments.k = "dict" THEN p.nutriments.d ELSE EmptyNutriments

\* line 111
EnergyRaw(nutr) == PyOr(nutr.energy_kcal_100g, nutr.energy_100g)

\* lines 80-120: the row dict of one product
MakeRow(p) ==
    LET nutr == Nutriments(p) IN
    [product_name |-> PyOr(clean_text_field(p.product_name), clean_text_field(p.generic_name)),
     brands |-> clean_text_field(p.brands),
     categories |-> clean_text_field(p.categories),
     countries |-> clean_text_field(p.countries),
     nutriscore |-> ValidGrade(PyOr(clean_text_field(p.nutrition_grade_fr),
                                    clean_text_field(p.nutrition_grades))),
     ecoscore |-> ValidGrade(clean_text_field(p.ecoscore_grade)),
     ingredients_text |-> clean_text_field(p.ingredients_text),
     ingredients_tags |-> IF p.ingredients_tags.k = "list" /\ p.ingredients_tags.l # <<>>
                          THEN p.ingredients_tags ELSE NoTags,
     barcode |-> clean_text_field(p.code),
     energy_100g_kcal |-> EnergyRaw(nutr),
     fat_100g |-> nutr.fat_100g,
     saturated_fat_100g |-> nutr.saturated_fat_100g,
     carbohydrates_100g |-> nutr.carbohydrates_100g,
     sugars_100g |-> nutr.sugars_100g,
     fiber_100g |-> nutr.fiber_100g,
     proteins_100g |-> nutr.proteins_100g,
     salt_100g |-> nutr.salt_100g,
     image_url |-> PyOr(clean_text_field(p.image_front_small_url), clean_text_field(p.image_url))]

\* line 123
KeepRowMut(row) == Truthy(row.product_name)
KeepRow(row) == Truthy(row.product_name) \/ Truthy(row.barcode)

\* lines 78-124: the rows list, in input order
RECURSIVE CollectRows(_)
CollectRows(ps) ==
    IF ps = <<>> THEN <<>>
    ELSE LET row == MakeRow(Head(ps)) IN
         (IF KeepRow(row) THEN <<row>> ELSE <<>>) \o CollectRows(Tail(ps))

numeric_cols ==
    <<"energy_100g_kcal", "fat_100g", "saturated_fat_100g", "carbohydrates_100g",
      "sugars_100g", "fiber_100g", "proteins_100g", "salt_100g">>

NumericColSet == {numeric_cols[i] : i \in 1..Len(numeric_cols)}

\* line 137: df.loc[df[col] < 0, col] = None
DropNegativeMut(v) == v
DropNegative(v) == IF v.k = "num" /\ v.n < 0 THEN NaN ELSE v

\* lines 138-139: df.loc[df[col] > 900, col] = None
EnergyBoundMut(v) == IF v.k = "num" /\ v.n > EnergyMax THEN Num(EnergyMax) ELSE v
EnergyBound(v) == IF v.k = "num" /\ v.n > EnergyMax THEN NaN ELSE v

\* lines 140-141: df.loc[df[col] > 100, col] = None
MacroBoundMut(v) == IF v.k = "num" /\ v.n >= MacroMax THEN NaN ELSE v
MacroBound(v) == IF v.k = "num" /\ v.n > MacroMax THEN NaN ELSE v

MacroCols == {"fat_100g", "carbohydrates_100g", "proteins_100g"}

\* the 100 g bound applied to every nutrient column but energy
CleanCellMut(col, v) ==
    LET c == DropNegative(ToNumeric(v)) IN
    IF col = "energy_100g_kcal" THEN EnergyBound(c) ELSE MacroBound(c)

\* lines 134-141 on one cell of column col
CleanCell(col, v) ==
    LET c == DropNegative(ToNumeric(v)) IN
    IF col = "energy_100g_kcal" THEN EnergyBound(c)
    ELSE IF col \in MacroCols THEN MacroBound(c)
    ELSE c

CleanRow(row) ==
    [f \in DOMAIN row |-> IF f \in NumericColSet THEN CleanCell(f, row[f]) ELSE row[f]]

\* pd.DataFrame(): no columns, no rows
EmptyFrame == [columns |-> FALSE, rows |-> <<>>]
Frame(rows) == [columns |-> TRUE, rows |-> rows]

\* df.empty
IsEmpty(df) == ~df.columns \/ df.rows = <<>>

Returned(df) == [status |-> "ok", df |-> df]
Raised(what) == [status |-> what, df |-> EmptyFrame]

\* lines 72-143.  pd.DataFrame([]) has no columns, so df[col] on line 134
\* raises KeyError when every product was dropped.
normalize_products_json(ps) ==
    IF ps = <<>> THEN Returned(EmptyFrame)
    ELSE LET rows == CollectRows(ps) IN
         IF rows = <<>> THEN Raised("KeyError")
         ELSE Returned(Frame([i \in 1..Len(rows) |-> CleanRow(rows[i])]))

---------------------------------------------------------------------------
(* top_ingredients_from_df *)

Blacklist ==
    { <<"u", "n", "k", "n", "o", "w", "n">>, <<"n", "/", "a">>, <<"n", "o", "n", "e">>, <<>> }

\* line 151: t.split(":")[-1].replace("-", " ").title()
DisplayName(t) == Title(Replace(SplitLast(t, ":"), "-", " "))

\* line 153
Counted(name) == name # <<>> /\ Lower(name) \notin Blacklist

\* counter[name] += 1 on a Counter kept in insertion order
Increment(counter, name) ==
    IF \E i \in 1..Len(counter) : counter[i].name = name
    THEN [i \in 1..Len(counter) |->
             IF counter[i].name = name
             THEN [name |-> name, count |-> counter[i].count + 1]
             ELSE counter[i]]
    ELSE Append(counter, [name |-> name, count |-> 1])

RECURSIVE CountTags(_, _)
CountTags(counter, tags) ==
    IF tags = <<>> THEN counter
    ELSE LET name == DisplayName(Head(tags)) IN
         CountTags(IF Counted(name) THEN Increment(counter, name) ELSE counter, Tail(tags))

RECURSIVE CountRows(_, _)
CountRows(counter, rows) ==
    IF rows = <<>> THEN counter
    ELSE CountRows(IF Head(rows).ingredients_tags.k = "list"
                   THEN CountTags(counter, Head(rows).ingredients_tags.l)
                   ELSE counter,
                   Tail(rows))

\* e put before the entries of equal count: ties come out last-encountered first
InsertDescMut(sorted, e) ==
    LET before == {i \in 1..Len(sorted) : sorted[i].count > e.count}
        k == Cardinality(before)
    IN SubSeq(sorted, 1, k) \o <<e>> \o SubSeq(sorted, k + 1, Len(sorted))

\* where a stable descending sort puts e: after every entry with count >= e.count
InsertDesc(sorted, e) ==
    LET before == {i \in 1..Len(sorted) : sorted[i].count >= e.count}
        k == Cardinality(before)
    IN SubSeq(sorted, 1, k) \o <<e>> \o SubSeq(sorted, k + 1, Len(sorted))

RECURSIVE SortDescStable(_)
SortDescStable(entries) ==
    IF entries = <<>> THEN <<>>
    ELSE InsertDesc(SortDescStable(SubSeq(entries, 1, Len(entries) - 1)), entries[Len(entries)])

FirstN(q, n) == SubSeq(q, 1, IF n < Len(q) THEN n ELSE Len(q))

\* Counter.most_common(n)
most_common(counter, n) == FirstN(SortDescStable(counter), n)

\* lines 145-155.  df["ingredients_tags"] raises KeyError on a frame without columns.
top_ingredients_from_df(df, top_n) ==
    IF ~df.columns THEN [status |-> "KeyError", items |-> <<>>]
    ELSE [status |-> "ok", items |-> most_common(CountRows(<<>>, df.rows), top_n)]

---------------------------------------------------------------------------
(* brand_summary and nutriscore_to_numeric *)

\* line 165: df_br["brands"].str.split(",").str[0].str.strip()
primary_brand(row) == Strip(SplitFirst(row.brands.s, ","))

\* line 160
HasBrand(row) == NotNa(row.brands)

\* line 168
BrandKeptMut(row) == HasBrand(row)
BrandKept(row) == HasBrand(row) /\ Len(primary_brand(row)) > 0

\* lines 184-187: a = 1 ... e = 5, anything else NaN
nutriscore_to_numeric(v) ==
    IF v.k # "str" THEN NaN
    ELSE LET g == Lower(v.s) IN
         CASE g = <<"a">> -> Num(1)
           [] g = <<"b">> -> Num(2)
           [] g = <<"c">> -> Num(3)
           [] g = <<"d">> -> Num(4)
           [] g = <<"e">> -> Num(5)
           [] OTHER -> NaN

RECURSIVE SumOver(_, _)
SumOver(idx, f) ==
    IF idx = {} THEN 0
    ELSE LET i == CHOOSE x \in idx : TRUE IN f[i] + SumOver(idx \ {i}, f)

\* lines 173-177: one group of the groupby.  "count" counts the non-null
\* product names; the mean skips NaN and is sum/points (NaN when points = 0).
Group(rows, key) ==
    LET members == {i \in 1..Len(rows) : BrandKept(rows[i]) /\ primary_brand(rows[i]) = key}
        scored == {i \in members : NotNa(nutriscore_to_numeric(rows[i].nutriscore))}
    IN [primary_brand |-> key,
        num_products |-> Cardinality({i \in members : NotNa(rows[i].product_name)}),
        score_sum |-> SumOver(scored, [i \in scored |-> nutriscore_to_numeric(rows[i].nutriscore).n]),
        score_points |-> Cardinality(scored)]

BrandKeys(rows) == {primary_brand(rows[i]) : i \in {j \in 1..Len(rows) : BrandKept(rows[j])}}

\* groupby sorts the group keys ascending
SortedKeys(keys) ==
    CHOOSE q \in [1..Cardinality(keys) -> keys] :
        \A i, j \in 1..Cardinality(keys) : i < j => TextLess(q[i], q[j])

Grouped(rows) ==
    LET keys == SortedKeys(BrandKeys(rows)) IN
    [i \in 1..Len(keys) |-> Group(rows, keys[i])]

\* the groups left in groupby order, a summary that is never sorted
SortedByCountMut(groups) == {groups}

IsPermutation(f, m) == \A i, j \in 1..m : i # j => f[i] # f[j]

\* line 179: sort_values("num_products", ascending=False) with the default
\* sort kind, which is not stable: every descending arrangement is possible
SortedByCount(groups) ==
    LET m == Len(groups) IN
    { [i \in 1..m |-> groups[f[i]]] :
        f \in {g \in [1..m -> 1..m] :
                 /\ IsPermutation(g, m)
                 /\ \A i, j \in 1..m : i < j => groups[g[i]].num_products >= groups[g[j]].num_products} }

\* lines 157-182: the outcomes brand_summary(df, top_n) can have
brand_summary(df, top_n) ==
    IF ~df.columns THEN { [status |-> "KeyError", groups |-> <<>>] }
    ELSE IF \A i \in 1..Len(df.rows) : ~BrandKept(df.rows[i])
    THEN { [status |-> "ok", groups |-> <<>>] }
    ELSE { [status |-> "ok", groups |-> FirstN(q, top_n)] : q \in SortedByCount(Grouped(df.rows)) }

---------------------------------------------------------------------------
(* The raw product records the model feeds to the pipeline *)

Base ==
    [product_name |-> None, generic_name |-> None, brands |-> None,
     categories |-> None, countries |-> None,
     nutrition_grade_fr |-> None, nutrition_grades |-> None, ecoscore_grade |-> None,
     ecoscore_alternate |-> None,   \* an older-schema ecoscore key: not read by any line
     ingredients_text |-> None, ingredients_tags |-> NoTags, code |-> None,
     image_front_small_url |-> None, image_url |-> None,
     nutriments |-> [k |-> "missing", d |-> EmptyNutriments]]

Named == [Base EXCEPT !.product_name = Str(<<"X">>)]
CodeOnly == [Base EXCEPT !.code = Str(<<"1">>)]

WithNutriment(p, f, v) ==
    [p EXCEPT !.nutriments = [k |-> "dict", d |-> [Nutriments(p) EXCEPT ![f] = v]]]

\* a product with every field filled in
Rich ==
    [Base EXCEPT
        !.product_name = Str(<<"X">>), !.brands = Str(<<"A", ",", "B">>), !.categories = Str(<<"c">>), !.countries = Str(<<"F">>),
        !.nutrition_grade_fr = Str(<<"b">>), !.ecoscore_grade = Str(<<"c">>), !.code = Str(<<"2">>),
        !.ingredients_tags = Tags(<< <<"e", "n", ":", "s", "a", "l", "t">> >>),
        !.nutriments = [k |-> "dict", d |->
            [energy_kcal_100g |-> Num(450), energy_100g |-> Num(1883), fat_100g |-> Num(50),
             saturated_fat_100g |-> Num(20), carbohydrates_100g |-> Num(60),
             sugars_100g |-> Num(150), fiber_100g |-> Num(5), proteins_100g |-> Num(10),
             salt_100g |-> Num(120)]]]

TextValues == {None, Str(<<>>), Str(<<" ">>), Str(<<"x">>)}

IdentRecords ==
    {[Base EXCEPT !.product_name = a, !.generic_name = b, !.code = c] :
        a \in TextValues, b \in {None, Str(<<"g">>)}, c \in {None, Str(<<" ", " ">>), Str(<<"1">>)}}

RawNutrientKeys ==
    {"energy_kcal_100g", "energy_100g", "fat_100g", "saturated_fat_100g",
     "carbohydrates_100g", "sugars_100g", "fiber_100g", "proteins_100g", "salt_100g"}

NutrientValues ==
    {None, Num(-1), Num(0), Num(100), Num(101), Num(150), Num(900), Num(901),
     Str(<<"-", "5">>), Str(<<"1", "5", "0">>), Str(<<"x">>)}

NutrientRecords ==
    {WithNutriment(Rich, f, v) : f \in RawNutrientKeys, v \in NutrientValues}
    \cup {WithNutriment(CodeOnly, f, v) : f \in RawNutrientKeys, v \in {Num(-1), Num(150)}}

EnergyRecords ==
    {WithNutriment(WithNutriment(Named, "energy_kcal_100g", a), "energy_100g", b) :
        a \in {None, Num(0), Num(450), Str(<<"0">>)},
        b \in {None, Num(500), Num(1000), Num(1800), Num(4000)}}

BrandTexts == {Str(<<" ">>), Str(<<"A">>), Str(<<"B">>), Str(<<"A", ",", "B">>), Str(<<",", "A">>), Str(<<" ", "A", " ">>), Str(<<" ", ",", "B">>), Str(<<"a">>)}

BrandRecords ==
    {[CodeOnly EXCEPT !.brands = b, !.product_name = a, !.nutrition_grade_fr = g] :
        b \in BrandTexts, a \in {None, Str(<<"x">>)}, g \in {None, Str(<<"a">>), Str(<<"e">>)}}

BrandCore ==
    {[CodeOnly EXCEPT !.brands = b, !.product_name = a] : b \in {Str(<<"A">>), Str(<<"B">>), Str(<<",", "A">>)}, a \in {None, Str(<<"x">>)}}
    \cup {[Named EXCEPT !.brands = Str(<<"A", " ", ",", " ", "C">>), !.nutrition_grade_fr = g] : g \in {Str(<<"a">>), Str(<<"E">>)}}

GradeRecords ==
    {[Named EXCEPT !.nutrition_grade_fr = a, !.nutrition_grades = b, !.ecoscore_grade = c] :
        a \in {None, Str(<<" ">>), Str(<<"A">>), Str(<<"b">>), Str(<<"f">>)}, b \in {None, Str(<<"D">>), Str(<<"a", "b">>)}, c \in {None, Str(<<"C">>), Str(<<"e">>), Str(<<"f">>), Str(<<" ", "a">>)}}
    \cup {[Named EXCEPT !.ecoscore_grade = c, !.ecoscore_alternate = Str(<<"B">>)] :
            c \in {None, Str(<<" ">>), Str(<<"C">>)}}

TagLists ==
    {NoTags, Tags(<<>>),
     Tags(<< <<"e", "n", ":", "s", "a", "l", "t">> >>),
     Tags(<< <<"e", "n", ":", "S", "a", "l", "t">>, <<"f", "r", ":", "s", "a", "l", "t">> >>),
     Tags(<< <<"e", "n", ":", "s", "u", "g", "a", "r">>, <<"e", "n", ":", "s", "a", "l", "t">> >>),
     Tags(<< <<"u", "n", "k", "n", "o", "w", "n">>, <<"e", "n", ":", "s", "u", "g", "a", "r">> >>),
     Tags(<< <<"e", "n", ":", "s", "e", "a", "-", "s", "a", "l", "t">>, <<"e", "n", ":", "n", "o", "n", "e">> >>),
     Tags(<< <<"e", "n", ":">>, <<"n", "/", "a">>, <<"e", "n", ":", "s", "e", "a", " ", "s", "a", "l", "t">> >>)}

TagRecords == {[Named EXCEPT !.ingredients_tags = t] : t \in TagLists}

IdentCore ==
    {Base, Named, CodeOnly, Rich, [Base EXCEPT !.product_name = Str(<<" ">>), !.code = Str(<<" ">>)]}

AllRecords ==
    IdentRecords \cup NutrientRecords \cup EnergyRecords \cup BrandRecords
    \cup GradeRecords \cup TagRecords \cup IdentCore \cup BrandCore

SeqsUpTo(S, m) == UNION {[1..k -> S] : k \in 0..m}

\* the product lists the library-level runs are given
Payloads ==
    SeqsUpTo(IdentCore, MaxProducts) \cup SeqsUpTo(BrandCore, MaxProducts)
    \cup SeqsUpTo(TagRecords, MaxProducts) \cup {<<r>> : r \in AllRecords}

---------------------------------------------------------------------------
(* Library-level runs: normalize_products_json, a second call on the same  *)
(* products, and the two aggregations on the returned frame                *)

NotRun == [status |-> "none", df |-> EmptyFrame]
NoSummary == [status |-> "none", groups |-> <<>>, top_n |-> 0]
NoTop == [status |-> "none", items |-> <<>>, top_n |-> 0]
NoLookup == [fetch |-> "none", status |-> 0, product |-> Base]
Unset == [is_none |-> TRUE, df |-> EmptyFrame]
Held(df) == [is_none |-> FALSE, df |-> df]

\* lines 746-778: the quality_data list, one entry per field.  df[col] raises
\* KeyError on a frame without columns.  completeness is valid / total * 100,
\* kept as the fraction num / den.
QualityFields ==
    NumericColSet \cup {"product_name", "brands", "nutriscore", "ecoscore"}

QualityEntry(rows, field) ==
    LET total == Len(rows)
        valid == Cardinality({i \in 1..Len(rows) : NotNa(rows[i][field])})
    IN [valid |-> valid,
        missing |-> total - valid,
        completeness |-> IF total > 0 THEN [num |-> valid * 100, den |-> total]
                         ELSE [num |-> 0, den |-> 1]]

NoReport == [status |-> "none", fields |-> <<>>]

quality_report(df) ==
    IF ~df.columns THEN [status |-> "KeyError", fields |-> <<>>]
    ELSE [status |-> "ok", fields |-> [f \in QualityFields |-> QualityEntry(df.rows, f)]]

\* lines 79-120 read the products through .get only and build new dicts:
\* the list handed in is left as it was
ProductsAfterNormalizeMut(ps) ==
    [i \in 1..Len(ps) |-> [ps[i] EXCEPT !.nutriments = [k |-> "missing", d |-> EmptyNutriments]]]
ProductsAfterNormalize(ps) == ps

SessionIdle ==
    /\ session_df = Unset
    /\ fetch = "none"
    /\ search_msg = "none"
    /\ lookup = NoLookup
    /\ lookup_msg = "none"
    /\ shown = FALSE
    /\ quality = NoReport

InitBuild ==
    /\ products \in Payloads
    /\ given = products
    /\ out = NotRun
    /\ out2 = NotRun
    /\ pc = "start"
    /\ summary = NoSummary
    /\ top = NoTop
    /\ SessionIdle

session_vars == <<session_df, fetch, search_msg, lookup, lookup_msg, shown, quality>>

Build ==
    /\ pc = "start"
    /\ out' = normalize_products_json(products)
    /\ products' = ProductsAfterNormalize(products)
    /\ pc' = "built"
    /\ UNCHANGED <<given, out2, summary, top, session_vars>>

Rebuild ==
    /\ pc = "built"
    /\ out2' = normalize_products_json(products)
    /\ products' = ProductsAfterNormalize(products)
    /\ pc' = "rebuilt"
    /\ UNCHANGED <<given, out, summary, top, session_vars>>

BrandSummary ==
    /\ pc \in {"built", "rebuilt"}
    /\ out.status = "ok"
    /\ \E n \in 1..MaxTop : \E r \in brand_summary(out.df, n) :
          summary' = [status |-> r.status, groups |-> r.groups, top_n |-> n]
    /\ UNCHANGED <<products, given, out, out2, pc, top, session_vars>>

TopIngredients ==
    /\ pc \in {"built", "rebuilt"}
    /\ out.status = "ok"
    /\ \E n \in 1..MaxTop :
          LET r == top_ingredients_from_df(out.df, n) IN
          top' = [status |-> r.status, items |-> r.items, top_n |-> n]
    /\ UNCHANGED <<products, given, out, out2, pc, summary, session_vars>>

NextBuild == Build \/ Rebuild \/ BrandSummary \/ TopIngredients

SpecBuild == InitBuild /\ [][NextBuild]_vars

---------------------------------------------------------------------------
(* The Streamlit script: one action per script run.  A run is started by   *)
(* the Search button, by the Lookup button or by any other widget change.  *)

\* the product lists a search can return in the session model
SessionRecords ==
    {Base, Rich, [CodeOnly EXCEPT !.brands = Str(<<"B">>), !.ingredients_tags = Tags(<< <<"e", "n", ":", "s", "u", "g", "a", "r">> >>)]}

SessionPayloads == SeqsUpTo(SessionRecords, MaxProducts)

\* lines 220-221: the session keeps the new frame only when it has rows
SessionAfterSearchMut(old, df) == Held(df)
SessionAfterSearch(old, df) == IF ~IsEmpty(df) THEN Held(df) ELSE old

\* lines 356-778: the dashboard guard, the two aggregations of the tabs and
\* the data quality report
DashboardShown(s) == ~s.is_none /\ ~IsEmpty(s.df)

Dashboard(s) ==
    IF DashboardShown(s)
    THEN /\ shown' = TRUE
         /\ \E r \in brand_summary(s.df, DashboardBrands) :
               summary' = [status |-> r.status, groups |-> r.groups, top_n |-> DashboardBrands]
         /\ LET r == top_ingredients_from_df(s.df, DashboardIngredients) IN
               top' = [status |-> r.status, items |-> r.items, top_n |-> DashboardIngredients]
         /\ quality' = quality_report(s.df)
    ELSE /\ shown' = FALSE
         /\ summary' = NoSummary
         /\ top' = NoTop
         /\ quality' = NoReport

\* st.stop() on line 235: nothing below the search flow is rendered
Stopped ==
    /\ shown' = FALSE
    /\ summary' = NoSummary
    /\ top' = NoTop
    /\ quality' = NoReport

\* lines 214-235 with fetch_products raising
SearchFetchFails ==
    /\ fetch' = "failed"
    /\ given' = <<>>
    /\ products' = <<>>
    /\ out' = NotRun
    /\ search_msg' = "error"
    /\ UNCHANGED session_df
    /\ Stopped

\* lines 214-235 with fetch_products returning a product list
SearchFetched ==
    \E ps \in SessionPayloads : \E res \in {normalize_products_json(ps)} :
        /\ fetch' = "ok"
        /\ given' = ps
        /\ products' = ProductsAfterNormalize(ps)
        /\ out' = res
        /\ IF res.status # "ok"
           THEN /\ search_msg' = "error"
                /\ UNCHANGED session_df
                /\ Stopped
           ELSE /\ search_msg' = IF ~IsEmpty(res.df) THEN "success" ELSE "warning"
                /\ session_df' = SessionAfterSearch(session_df, res.df)
                /\ Dashboard(session_df')

Search ==
    /\ pc = "script"
    /\ SearchFetchFails \/ SearchFetched
    /\ lookup' = NoLookup
    /\ lookup_msg' = "none"
    /\ UNCHANGED <<out2, pc>>

\* the products a barcode lookup can return
LookupProducts ==
    {Base, Rich, WithNutriment(Named, "fat_100g", Str(<<"5">>)),
     [Named EXCEPT !.nutriments = [k |-> "none", d |-> EmptyNutriments]]}

\* lines 244-350: rendering the product details raises when "nutriments" is
\* null (None.get on line 270) or when a nutriment to be formatted with
\* :.0f / :.1f / :.2f is a string (lines 284-308)
RenderRaises(prod) ==
    \/ prod.nutriments.k = "none"
    \/ /\ prod.nutriments.k = "dict"
       /\ LET nutr == prod.nutriments.d
              energy_kcal == PyOr(nutr.energy_kcal_100g, nutr.energy_100g)
          IN \/ (Truthy(energy_kcal) /\ energy_kcal.k = "str")
             \/ \E f \in RawNutrientKeys \ {"energy_kcal_100g", "energy_100g"} : nutr[f].k = "str"

\* lines 240-354
LookupMessage(l) ==
    IF l.fetch = "failed" THEN "error"
    ELSE IF l.status = 1
    THEN (IF RenderRaises(l.product) THEN "error" ELSE "details")
    ELSE "not_found"

LookupResponses ==
    {[fetch |-> "failed", status |-> 0, product |-> Base]}
    \cup {[fetch |-> "ok", status |-> 0, product |-> Base]}
    \cup {[fetch |-> "ok", status |-> 1, product |-> p] : p \in LookupProducts}

\* lines 238-354, then the dashboard: the except clause does not stop the run
Lookup ==
    /\ pc = "script"
    /\ \E barcode \in {<<>>, <<" ">>, <<"1">>, <<" ", "2">>} :
          IF Strip(barcode) # <<>>
          THEN \E l \in LookupResponses :
                  /\ lookup' = l
                  /\ lookup_msg' = LookupMessage(l)
          ELSE /\ lookup' = NoLookup
               /\ lookup_msg' = "none"
    /\ fetch' = "none"
    /\ search_msg' = "none"
    /\ Dashboard(session_df)
    /\ UNCHANGED <<products, given, out, out2, pc, session_df>>

\* a run started by neither button
Rerun ==
    /\ pc = "script"
    /\ fetch' = "none"
    /\ search_msg' = "none"
    /\ lookup' = NoLookup
    /\ lookup_msg' = "none"
    /\ Dashboard(session_df)
    /\ UNCHANGED <<products, given, out, out2, pc, session_df>>

\* lines 209-211
Init ==
    /\ products = <<>>
    /\ given = <<>>
    /\ out = NotRun
    /\ out2 = NotRun
    /\ pc = "script"
    /\ summary = NoSummary
    /\ top = NoTop
    /\ SessionIdle

Next == Search \/ Lookup \/ Rerun

Spec == Init /\ [][Next]_vars

---------------------------------------------------------------------------
(* Properties of normalize_products_json (checked under SpecBuild)         *)

\* a text field that is there and not whitespace-only
Present(v) == v.k = "str" /\ Strip(v.s) # <<>>

\* the record has a name (product_name, else generic_name) or a barcode
HasIdentity(p) == Present(p.product_name) \/ Present(p.generic_name) \/ Present(p.code)

Identified(ps) == {i \in 1..Len(ps) : HasIdentity(ps[i])}

AllIdentified(ps) == \A i \in 1..Len(ps) : HasIdentity(ps[i])

Normalized == pc # "start" /\ out.status = "ok"

\* the value a product puts into a nutrient column before coercion
RawCell(p, col) == MakeRow(p)[col]

Coerced(p, col) == ToNumeric(RawCell(p, col))

\* C1: a record with neither a name nor a barcode produces no row, and the
\* returned dataset has one row per record that has a name or a barcode
\* (duplicates counted separately).
C1_RowCount ==
    pc # "start" =>
        /\ Len(CollectRows(given)) = Cardinality(Identified(given))
        /\ out.status = "ok" =>
              /\ Len(out.df.rows) = Cardinality(Identified(given))
              /\ \A i \in 1..Len(out.df.rows) :
                    Present(out.df.rows[i].product_name) \/ Present(out.df.rows[i].barcode)

\* one record without identity was dropped next to one that was kept
C1_Witness ==
    /\ Normalized
    /\ Len(given) = 2
    /\ Cardinality(Identified(given)) = 1
    /\ Len(out.df.rows) = 1

\* C2: normalize_products_json raises on no sequence of sparse records; a
\* non-empty input whose records are all dropped yields an empty dataset.
C2_NeverRaises ==
    pc # "start" =>
        /\ out.status = "ok"
        /\ (given # <<>> /\ Identified(given) = {}) => out.df.rows = <<>>

\* kilojoules to kilocalories, n / 4.184, rounded down
KJDivisorMilli == 4184
KJToKcal(x) == (x * 1000) \div KJDivisorMilli

\* C3: without a kcal field, an energy_100g above 1000 is divided by 4.184
\* before the 900 bound is applied (energy_100g = 1800 is stored as about 430).
C3_KilojouleConverted ==
    (Normalized /\ AllIdentified(given)) =>
        \A i \in 1..Len(given) :
            LET nutr == Nutriments(given[i]) IN
            (IsNone(nutr.energy_kcal_100g) /\ nutr.energy_100g.k = "num"
                /\ nutr.energy_100g.n > KJThreshold)
            => /\ i <= Len(out.df.rows)
               /\ out.df.rows[i].energy_100g_kcal =
                     (IF KJToKcal(nutr.energy_100g.n) > EnergyMax
                      THEN NaN ELSE Num(KJToKcal(nutr.energy_100g.n)))

\* C4: no row holds a negative nutrient value; an input below 0 is stored
\* as absent, in each of the eight nutrient columns.
C4_NoNegative ==
    Normalized =>
        /\ \A i \in 1..Len(out.df.rows) : \A c \in NumericColSet :
              LET cell == out.df.rows[i][c] IN
              cell = NaN \/ (cell.k = "num" /\ cell.n >= 0)
        /\ (AllIdentified(given) /\ Len(out.df.rows) = Len(given)) =>
              \A i \in 1..Len(given) : \A c \in NumericColSet :
                  (Coerced(given[i], c).k = "num" /\ Coerced(given[i], c).n < 0)
                  => out.df.rows[i][c] = NaN

C4_Witness ==
    /\ Normalized
    /\ Len(out.df.rows) = Len(given)
    /\ \E i \in 1..Len(given) :
          /\ Coerced(given[i], "salt_100g") = Num(-1)
          /\ out.df.rows[i].salt_100g = NaN

\* C5: the energy of a row is absent or at most 900; a value above 900 is
\* stored as absent (not as 900) and a value of exactly 900 is kept.
C5_EnergyBound ==
    Normalized =>
        /\ \A i \in 1..Len(out.df.rows) :
              LET cell == out.df.rows[i].energy_100g_kcal IN
              cell = NaN \/ (cell.k = "num" /\ cell.n <= EnergyMax)
        /\ (AllIdentified(given) /\ Len(out.df.rows) = Len(given)) =>
              \A i \in 1..Len(given) :
                  LET v == Coerced(given[i], "energy_100g_kcal") IN
                  /\ (v.k = "num" /\ v.n > EnergyMax) => out.df.rows[i].energy_100g_kcal = NaN
                  /\ v = Num(EnergyMax) => out.df.rows[i].energy_100g_kcal = Num(EnergyMax)

C5_Witness ==
    /\ Normalized
    /\ Len(out.df.rows) = Len(given)
    /\ \E i \in 1..Len(given) :
          /\ Coerced(given[i], "energy_100g_kcal") = Num(EnergyMax + 1)
          /\ out.df.rows[i].energy_100g_kcal = NaN

\* C6: a fat, carbohydrates or proteins value above 100 is stored as absent
\* in that column only: the row is kept when it has a name or barcode, its
\* other fields are what they are without that value, and 100 is kept.
C6_MacroBound ==
    (Normalized /\ AllIdentified(given)) =>
        /\ Len(out.df.rows) = Len(given)
        /\ \A i \in 1..Len(given) : \A c \in MacroCols :
              LET v == Coerced(given[i], c)
                  without == CleanRow(MakeRow(WithNutriment(given[i], c, None)))
              IN /\ (v.k = "num" /\ v.n > MacroMax) =>
                        /\ out.df.rows[i][c] = NaN
                        /\ \A g \in DOMAIN without \ {c} : out.df.rows[i][g] = without[g]
                 /\ v = Num(MacroMax) => out.df.rows[i][c] = Num(MacroMax)

C6_Witness ==
    /\ Normalized
    /\ Len(out.df.rows) = Len(given)
    /\ \E i \in 1..Len(given) :
          /\ Coerced(given[i], "fat_100g") = Num(150)
          /\ out.df.rows[i].fat_100g = NaN
          /\ out.df.rows[i].sugars_100g = Num(150)
          /\ out.df.rows[i].proteins_100g = Num(10)

C8_NoEmptyBrand ==
    summary.status = "ok" =>
        /\ \A i \in 1..Len(summary.groups) : summary.groups[i].primary_brand # <<>>
        /\ \A i \in 1..Len(summary.groups) :
              \E j \in 1..Len(out.df.rows) :
                  /\ Present(out.df.rows[j].brands)
                  /\ Strip(SplitFirst(out.df.rows[j].brands.s, ",")) = summary.groups[i].primary_brand
        /\ (\A j \in 1..Len(out.df.rows) :
               ~Present(out.df.rows[j].brands)
               \/ Strip(SplitFirst(out.df.rows[j].brands.s, ",")) = <<>>)
           => summary.groups = <<>>

C8_Witness ==
    /\ summary.status = "ok"
    /\ Len(summary.groups) = 1
    /\ \E j \in 1..Len(out.df.rows) :
          /\ Present(out.df.rows[j].brands)
          /\ Head(out.df.rows[j].brands.s) = ","

\* C10: top_ingredients_from_df and brand_summary return a result, without
\* an error, on every dataset the builder returns; on the empty dataset the
\* result is empty.
C10_Total ==
    Normalized =>
        /\ summary.status \in {"none", "ok"}
        /\ top.status \in {"none", "ok"}
        /\ (IsEmpty(out.df) /\ summary.status # "none") => summary.groups = <<>>
        /\ (IsEmpty(out.df) /\ top.status # "none") => top.items = <<>>

---------------------------------------------------------------------------
(* Properties of the script run (checked under Spec)                       *)

\* the rows normalize_products_json builds from a product list
BuiltRows(ps) == LET rows == CollectRows(ps) IN [i \in 1..Len(rows) |-> CleanRow(rows[i])]

\* C9: after a search whose fetch did not fail, the current dataset is
\* exactly the rows built from that search's results, also when there are none.
C9_ReplacedWholesale ==
    fetch = "ok" => session_df.df.rows = BuiltRows(given)

\* C9 as amended: a search that yields at least one row replaces the current
\* dataset by exactly its rows; a search that yields no row leaves it as it was.
C9_ReplacedWhenRows ==
    [][fetch' = "ok" =>
          IF BuiltRows(given') # <<>>
          THEN session_df' = Held(Frame(BuiltRows(given')))
          ELSE session_df' = session_df]_vars

C9_Witness ==
    /\ fetch = "ok"
    /\ search_msg = "warning"
    /\ ~session_df.is_none
    /\ Len(session_df.df.rows) = 2

\* C11: on a dataset with zero rows the completeness report shows valid = 0,
\* missing = 0 and 0% for every field, without an error; on every dataset
\* missing = total rows - valid.
C11_ReportOnEmpty ==
    /\ quality.status = "ok" =>
          \A f \in QualityFields :
              quality.fields[f].missing = Len(session_df.df.rows) - quality.fields[f].valid
    /\ (fetch = "ok" /\ out.status = "ok" /\ out.df.rows = <<>> /\ session_df.is_none) =>
          /\ quality.status = "ok"
          /\ \A f \in QualityFields :
                /\ quality.fields[f].valid = 0
                /\ quality.fields[f].missing = 0
                /\ quality.fields[f].completeness.num = 0

\* C12: a barcode lookup ends in one of three outcomes: a found response
\* shows the product details, any other response is reported as not found,
\* and only a failed fetch is reported as an error.
C12_DistinctOutcomes ==
    lookup.fetch # "none" =>
        /\ lookup_msg = "details" <=> (lookup.fetch = "ok" /\ lookup.status = 1)
        /\ lookup_msg = "not_found" <=> (lookup.fetch = "ok" /\ lookup.status # 1)
        /\ lookup_msg = "error" <=> lookup.fetch = "failed"

---------------------------------------------------------------------------
(* Properties of the aggregations and of grade and energy resolution       *)
(* (checked under SpecBuild)                                               *)

\* the primary brand of a row: the brand text before the first comma, trimmed
BrandOf(row) == Strip(SplitFirst(row.brands.s, ","))

RowsOfBrand(rows, key) ==
    {j \in 1..Len(rows) : Present(rows[j].brands) /\ BrandOf(rows[j]) = key}

\* C13: the product count of a group is the number of rows of its primary
\* brand, rows without a name included.
C13_ProductCount ==
    (Normalized /\ summary.status = "ok") =>
        \A i \in 1..Len(summary.groups) :
            summary.groups[i].num_products =
                Cardinality(RowsOfBrand(out.df.rows, summary.groups[i].primary_brand))

BrandKeysOf(rows) ==
    {BrandOf(rows[j]) : j \in {n \in 1..Len(rows) : Present(rows[n].brands)}} \ {<<>>}

\* the product count the summary reports for a brand
ReportedCount(rows, key) ==
    Cardinality({j \in RowsOfBrand(rows, key) : NotNa(rows[j].product_name)})

ReturnedBrands == {summary.groups[i].primary_brand : i \in 1..Len(summary.groups)}

TopGroups ==
    LET g == summary.groups
        rows == out.df.rows IN
    /\ Len(g) <= summary.top_n
    /\ \A i, j \in 1..Len(g) : i < j =>
          /\ g[i].num_products >= g[j].num_products
          /\ g[i].primary_brand # g[j].primary_brand
    /\ \A i \in 1..Len(g) :
          /\ g[i].primary_brand \in BrandKeysOf(rows)
          /\ g[i].num_products = ReportedCount(rows, g[i].primary_brand)
    /\ \A k \in BrandKeysOf(rows) \ ReturnedBrands :
          /\ Len(g) = summary.top_n
          /\ \A i \in 1..Len(g) : g[i].num_products >= ReportedCount(rows, k)

\* C14 (as stated): the summary has at most n groups, in descending order of
\* product count with equal counts in ascending order of primary brand, and
\* no omitted group has a higher count than a returned one.
C14_TieByBrand ==
    summary.status = "ok" =>
        /\ TopGroups
        /\ \A i, j \in 1..Len(summary.groups) :
              (i < j /\ summary.groups[i].num_products = summary.groups[j].num_products)
                  => TextLess(summary.groups[i].primary_brand, summary.groups[j].primary_brand)

\* C14 (amended): the summary has at most n groups, in descending order of
\* the reported product count, one per primary brand, and no omitted group
\* has a higher count than a returned one; the order among equal counts is
\* not fixed.
C14_TopGroups == summary.status = "ok" => TopGroups

C14_Witness ==
    /\ summary.status = "ok"
    /\ summary.top_n = 1
    /\ Len(summary.groups) = 1
    /\ \E k \in BrandKeysOf(out.df.rows) \ ReturnedBrands :
          /\ TextLess(k, summary.groups[1].primary_brand)
          /\ ReportedCount(out.df.rows, k) < summary.groups[1].num_products

\* a field that is missing, null or whitespace-only
Blank(v) == IsNone(v) \/ (v.k = "str" /\ Strip(v.s) = <<>>)

HoldsGrade(v) == v.k = "str" /\ Lower(v.s) \in Grades

Aligned == Normalized /\ AllIdentified(given) /\ Len(out.df.rows) = Len(given)

\* C15: when the canonical grade field is absent or whitespace-only and the
\* alternate field holds a valid grade, the stored grade is the lower-cased
\* alternate value, for nutriscore and for ecoscore alike.
C15_GradeFallback ==
    Aligned =>
        \A i \in 1..Len(given) :
            LET p == given[i] IN
            /\ (Blank(p.nutrition_grade_fr) /\ HoldsGrade(p.nutrition_grades))
                  => out.df.rows[i].nutriscore = Str(Lower(p.nutrition_grades.s))
            /\ (Blank(p.ecoscore_grade) /\ HoldsGrade(p.ecoscore_alternate))
                  => out.df.rows[i].ecoscore = Str(Lower(p.ecoscore_alternate.s))

\* the grade text a record offers for nutriscore: the first non-blank field
GradeSource(p) ==
    IF Blank(p.nutrition_grade_fr) THEN p.nutrition_grades ELSE p.nutrition_grade_fr

StoredGrade(v, cell) ==
    /\ HoldsGrade(v) => cell = Str(Lower(v.s))
    /\ ~HoldsGrade(v) => cell = None

\* C16: the nutriscore and ecoscore of every row are absent or one of the
\* lower-case letters a to e: a grade in any letter case is stored
\* lower-cased, and a value outside the enumeration is stored as absent.
C16_GradeEnumeration ==
    /\ Normalized =>
          \A i \in 1..Len(out.df.rows) :
              /\ out.df.rows[i].nutriscore \in {None} \cup {Str(g) : g \in Grades}
              /\ out.df.rows[i].ecoscore \in {None} \cup {Str(g) : g \in Grades}
    /\ Aligned =>
          \A i \in 1..Len(given) :
              /\ StoredGrade(GradeSource(given[i]), out.df.rows[i].nutriscore)
              /\ StoredGrade(given[i].ecoscore_grade, out.df.rows[i].ecoscore)

C16_Witness ==
    /\ Aligned
    /\ \E i \in 1..Len(given) :
          /\ given[i].nutrition_grade_fr = Str(<<"A">>)
          /\ out.df.rows[i].nutriscore = Str(<<"a">>)
          /\ given[i].ecoscore_grade = Str(<<"f">>)
          /\ out.df.rows[i].ecoscore = None

\* C17: the kcal field is the energy source whenever the record has it, also
\* when its value is 0; energy_100g is the source only when it is missing.
C17_KcalPreferred ==
    Aligned =>
        \A i \in 1..Len(given) :
            LET nutr == Nutriments(given[i])
                source == IF IsNone(nutr.energy_kcal_100g) THEN nutr.energy_100g
                          ELSE nutr.energy_kcal_100g
            IN out.df.rows[i].energy_100g_kcal = CleanCell("energy_100g_kcal", source)

UnboundedCols == {"saturated_fat_100g", "sugars_100g", "fiber_100g", "salt_100g"}

\* C19: a non-negative numeric value of saturated fat, sugars, fiber or salt
\* is stored unchanged however large it is.
C19_NoUpperBound ==
    Aligned =>
        \A i \in 1..Len(given) : \A c \in UnboundedCols :
            LET v == Coerced(given[i], c) IN
            (v.k = "num" /\ v.n >= 0) => out.df.rows[i][c] = v

C19_Witness ==
    /\ Aligned
    /\ \E i \in 1..Len(given) :
          /\ Coerced(given[i], "sugars_100g") = Num(150)
          /\ out.df.rows[i].sugars_100g = Num(150)
          /\ Coerced(given[i], "salt_100g") = Num(120)
          /\ out.df.rows[i].salt_100g = Num(120)

\* every tag of every present tag list, in row order
RECURSIVE FlatTags(_)
FlatTags(rows) ==
    IF rows = <<>> THEN <<>>
    ELSE (IF Head(rows).ingredients_tags.k = "list" THEN Head(rows).ingredients_tags.l ELSE <<>>)
         \o FlatTags(Tail(rows))

Excluded == { <<"u", "n", "k", "n", "o", "w", "n">>, <<"n", "/", "a">>, <<"n", "o", "n", "e">>, <<>> }

Occurrences(flat, name) == Cardinality({i \in 1..Len(flat) : DisplayName(flat[i]) = name})

FirstSeen(flat, name) ==
    CHOOSE i \in 1..Len(flat) :
        /\ DisplayName(flat[i]) = name
        /\ \A j \in 1..(i - 1) : DisplayName(flat[j]) # name

Eligible(flat) == {DisplayName(flat[i]) : i \in 1..Len(flat)} \ {n \in {DisplayName(flat[i]) : i \in 1..Len(flat)} : Lower(n) \in Excluded}

\* entry a ranks before entry b: a higher count, or the same count and seen first
RanksBefore(flat, a, b) ==
    \/ Occurrences(flat, a) > Occurrences(flat, b)
    \/ /\ Occurrences(flat, a) = Occurrences(flat, b)
       /\ FirstSeen(flat, a) < FirstSeen(flat, b)

\* C18: top_ingredients_from_df counts the occurrences of each display form
\* over all present tag lists, leaves out the display forms unknown, n/a,
\* none and the empty one in any letter case, and returns the n entries of
\* highest count in descending order, equal counts in first-encountered order.
C18_TopIngredients ==
    top.status = "ok" =>
        LET flat == FlatTags(out.df.rows)
            items == top.items
            names == {items[i].name : i \in 1..Len(items)}
        IN /\ Len(items) = (IF Cardinality(Eligible(flat)) < top.top_n
                            THEN Cardinality(Eligible(flat)) ELSE top.top_n)
           /\ \A i \in 1..Len(items) :
                 /\ items[i].name \in Eligible(flat)
                 /\ items[i].count = Occurrences(flat, items[i].name)
           /\ \A i, j \in 1..Len(items) : i < j => RanksBefore(flat, items[i].name, items[j].name)
           /\ \A e \in Eligible(flat) \ names :
                 \A i \in 1..Len(items) : RanksBefore(flat, items[i].name, e)

C18_Witness ==
    /\ top.status = "ok"
    /\ Len(top.items) = 2
    /\ top.items[1].count = top.items[2].count
    /\ \E i \in 1..Len(FlatTags(out.df.rows)) :
          Lower(DisplayName(FlatTags(out.df.rows)[i])) \in Excluded

\* C20: the session's dataset changes only in a search whose fetch and
\* normalization succeeded with at least one row, and is always unset or
\* non-empty.
C20_DatasetFrame ==
    /\ [](session_df.is_none \/ session_df.df.rows # <<>>)
    /\ [][session_df' # session_df =>
             /\ fetch' = "ok"
             /\ search_msg' = "success"
             /\ out'.status = "ok"
             /\ out'.df.rows # <<>>
             /\ session_df' = Held(out'.df)]_vars

C20_Witness ==
    /\ ~session_df.is_none
    /\ session_df.df.rows # <<>>
    /\ \/ fetch = "failed"
       \/ fetch = "ok" /\ search_msg = "warning"
       \/ lookup.fetch # "none"

====
